---- MODULE Spec2Model ----
(***************************************************************************)
(* tidify: flattening of a nested tree of records (dicts, lists, scalars)  *)
(* into flat rows, and the ordering of the resulting column names.         *)
(*                                                                         *)
(* Python strings are modelled as sequences of one-character strings, so   *)
(* that count / split / endswith / "<" are computed as Python computes     *)
(* them.  Python dicts are modelled as sequences of [k, v] items with      *)
(* distinct keys, in insertion order.                                      *)
(***************************************************************************)
EXTENDS Integers, Sequences, FiniteSets, TLC

(***************************************************************************)
(* Bounds of the model.                                                    *)
(***************************************************************************)
\* longest array generated inside a record
MaxLen == 2
\* longest top-level list of the "top-level shapes" family
MaxRows == 2

(***************************************************************************)
(* Strings.                                                                *)
(***************************************************************************)
\* code point of the characters the model uses
Ord(c) ==
    CASE c = "." -> 46
      [] c = "_" -> 95
      [] c = "a" -> 97
      [] c = "b" -> 98
      [] c = "d" -> 100
      [] c = "e" -> 101
      [] c = "i" -> 105
      [] c = "n" -> 110
      [] c = "o" -> 111
      [] c = "r" -> 114
      [] c = "w" -> 119
      [] c = "x" -> 120
      [] c = "y" -> 121

\* the literal "row_index"
row_index == <<"r", "o", "w", "_", "i", "n", "d", "e", "x">>
\* the literal "index"
index == <<"i", "n", "d", "e", "x">>
\* the literal ".index"
dot_index == <<".", "i", "n", "d", "e", "x">>

\* s[i:] starts with sub (i is 1-based)
StartsWithAt(s, sub, i) ==
    /\ i + Len(sub) - 1 <= Len(s)
    /\ \A j \in 1..Len(sub) : s[i + j - 1] = sub[j]

\* str.endswith
EndsWith(s, suf) ==
    /\ Len(suf) <= Len(s)
    /\ StartsWithAt(s, suf, Len(s) - Len(suf) + 1)

RECURSIVE CountFrom(_, _, _)
CountFrom(s, sub, i) ==
    IF i + Len(sub) - 1 > Len(s) THEN 0
    ELSE IF StartsWithAt(s, sub, i) THEN 1 + CountFrom(s, sub, i + Len(sub))
    ELSE CountFrom(s, sub, i + 1)

\* str.count: the number of non-overlapping occurrences of sub in s
Count(s, sub) == CountFrom(s, sub, 1)

RECURSIVE SplitFrom(_, _, _, _)
SplitFrom(s, sub, i, cur) ==
    IF i > Len(s) THEN <<cur>>
    ELSE IF StartsWithAt(s, sub, i)
         THEN <<cur>> \o SplitFrom(s, sub, i + Len(sub), <<>>)
         ELSE SplitFrom(s, sub, i + 1, Append(cur, s[i]))

\* str.split(sep)
Split(s, sub) == SplitFrom(s, sub, 1, <<>>)

\* lst[:-1]
ButLast(lst) == IF Len(lst) = 0 THEN <<>> ELSE SubSeq(lst, 1, Len(lst) - 1)

RECURSIVE StrLTFrom(_, _, _)
StrLTFrom(s, t, i) ==
    IF i > Len(t) THEN FALSE
    ELSE IF i > Len(s) THEN TRUE
    ELSE IF s[i] = t[i] THEN StrLTFrom(s, t, i + 1)
    ELSE Ord(s[i]) < Ord(t[i])

\* s < t on Python strings: lexicographic by code point, a proper prefix is smaller
StrLT(s, t) == StrLTFrom(s, t, 1)

(***************************************************************************)
(* Values and dicts.                                                       *)
(***************************************************************************)
PyInt(n) == [t |-> "int", v |-> n]
PyNone == [t |-> "none", v |-> 0]
PyDict(items) == [t |-> "dict", v |-> items]
PyList(elems) == [t |-> "list", v |-> elems]

\* isinstance(v, list) or isinstance(v, tuple)
IsList(x) == x.t = "list"
\* isinstance(v, dict), hasattr(v, "items")
IsDict(x) == x.t = "dict"

\* k in d
HasKey(d, k) == \E i \in 1..Len(d) : d[i].k = k

\* d[k]
Get(d, k) == d[CHOOSE i \in 1..Len(d) : d[i].k = k].v

\* d[k] = v: an existing key keeps its position, a new key goes last
DictSet(d, k, val) ==
    IF HasKey(d, k)
    THEN [i \in 1..Len(d) |-> IF d[i].k = k THEN [k |-> k, v |-> val] ELSE d[i]]
    ELSE Append(d, [k |-> k, v |-> val])

RECURSIVE Update(_, _)
\* {**d, **e}, d.update(e)
Update(d, e) ==
    IF Len(e) = 0 THEN d
    ELSE Update(DictSet(d, e[1].k, e[1].v), Tail(e))

\* {k: v for k, v in d.items() if k not in ks}
WithoutKeys(d, ks) == SelectSeq(d, LAMBDA it : it.k \notin ks)

\* [k for k, v in d.items() if isinstance(v, list) or isinstance(v, tuple)]
ArrayKeys(d) ==
    LET sel == SelectSeq(d, LAMBDA it : IsList(it.v))
    IN  [i \in 1..Len(sel) |-> sel[i].k]

\* SubobjectKeys as it would be with the test for lists repeated (a mutant, for C7)
SubobjectKeysOfLists(d) == ArrayKeys(d)

\* [k for k, v in d.items() if isinstance(v, dict)]
SubobjectKeys(d) ==
    LET sel == SelectSeq(d, LAMBDA it : IsDict(it.v))
    IN  [i \in 1..Len(sel) |-> sel[i].k]

\* Prefixed as it would be with the separator forgotten (a mutant, for C6)
PrefixedNoSep(prefix, s, d) ==
    [i \in 1..Len(d) |-> [k |-> prefix \o d[i].k, v |-> d[i].v]]

\* {f"{prefix}{sep}{k}": v for k, v in d.items()}
Prefixed(prefix, s, d) ==
    [i \in 1..Len(d) |-> [k |-> prefix \o s \o d[i].k, v |-> d[i].v]]

\* the elements of a sequence, as a set
Range(f) == {f[i] : i \in 1..Len(f)}

(***************************************************************************)
(* col_comparator and the sort of the column list.                         *)
(***************************************************************************)
\* Alphabetical as it would be with the operands of "<" swapped (a mutant, for C9)
ReverseAlphabetical(item1, item2) == IF StrLT(item1, item2) THEN 1 ELSE -1

\* the last rule of col_comparator: plain string comparison
Alphabetical(item1, item2) == IF StrLT(item2, item1) THEN 1 ELSE -1

\* item1 and item2 share their parent path, or one is the other's parent
Siblings(item1, item2, s) ==
    \/ ButLast(Split(item1, s)) = ButLast(Split(item2, s))
    \/ Split(item1, s) = ButLast(Split(item2, s))
    \/ ButLast(Split(item1, s)) = Split(item2, s)

\* col_comparator(item1, item2, sep=s): negative when item1 sorts first
col_comparator(item1, item2, s) ==
    IF item1 = row_index THEN -1
    ELSE IF item2 = row_index THEN 1
    ELSE IF item1 = item2 \o s \o index THEN -1
    ELSE IF item2 = item1 \o s \o index THEN 1
    ELSE IF Count(item1, s) # Count(item2, s) THEN Count(item1, s) - Count(item2, s)
    ELSE IF Siblings(item1, item2, s) /\ EndsWith(item1, dot_index) THEN -1
    ELSE IF Siblings(item1, item2, s) /\ EndsWith(item2, dot_index) THEN 1
    ELSE Alphabetical(item1, item2)

\* the "<" list.sort sees through cmp_to_key
ISLT(x, y, s) == col_comparator(x, y, s) < 0

RECURSIVE RunAscending(_, _, _)
\* count_run, ascending case: the length of the run a[1..n] that ends where a[n+1] < a[n]
RunAscending(a, n, s) ==
    IF n >= Len(a) THEN n
    ELSE IF ISLT(a[n + 1], a[n], s) THEN n
    ELSE RunAscending(a, n + 1, s)

RECURSIVE RunDescending(_, _, _)
\* count_run, descending case: the run goes on while a[n+1] < a[n]
RunDescending(a, n, s) ==
    IF n >= Len(a) THEN n
    ELSE IF ISLT(a[n + 1], a[n], s) THEN RunDescending(a, n + 1, s)
    ELSE n

\* a with its first n elements reversed
ReversePrefix(a, n) ==
    [i \in 1..Len(a) |-> IF i <= n THEN a[n + 1 - i] ELSE a[i]]

RECURSIVE BinarySearch(_, _, _, _, _)
\* binarysort's search of the place of pivot in the sorted a[l..r-1] (0-based l, r)
BinarySearch(a, pivot, l, r, s) ==
    IF l >= r THEN l
    ELSE LET p == l + ((r - l) \div 2)
         IN  IF ISLT(pivot, a[p + 1], s)
             THEN BinarySearch(a, pivot, l, p, s)
             ELSE BinarySearch(a, pivot, p + 1, r, s)

RECURSIVE BinarySort(_, _, _)
\* binarysort: a[1..start] is sorted; insert a[start+1], a[start+2], ... in turn
BinarySort(a, start, s) ==
    IF start >= Len(a) THEN a
    ELSE LET pivot == a[start + 1]
             l == BinarySearch(a, pivot, 0, start, s)
             moved == [i \in 1..Len(a) |->
                          IF i <= l THEN a[i]
                          ELSE IF i = l + 1 THEN pivot
                          ELSE IF i <= start + 1 THEN a[i - 1]
                          ELSE a[i]]
         IN  BinarySort(moved, start + 1, s)

\* cols.sort(key=cmp_to_key(partial(col_comparator, sep=s))): a list shorter than 64
\* is one run found by count_run, extended by binary insertion
SortCols(a, s) ==
    IF Len(a) < 2 THEN a
    ELSE IF ISLT(a[2], a[1], s)
         THEN LET n == RunDescending(a, 2, s)
              IN  BinarySort(ReversePrefix(a, n), n, s)
         ELSE BinarySort(a, RunAscending(a, 2, s), s)

RECURSIVE FirstSeen(_, _)
\* DataFrame.from_records(rows).columns: the keys of the rows in order of first appearance
FirstSeen(rows, seen) ==
    IF Len(rows) = 0 THEN seen
    ELSE LET new == SelectSeq(rows[1], LAMBDA it : it.k \notin Range(seen))
         IN  FirstSeen(Tail(rows), seen \o [i \in 1..Len(new) |-> new[i].k])

(***************************************************************************)
(* The inputs of the model.                                                *)
(***************************************************************************)
key_a == <<"a">>
key_b == <<"b">>
key_x == <<"x">>

Item(k, val) == [k |-> k, v |-> val]

\* the dicts with at most two items, keys distinct and drawn from ks, values from vs
DictsOver(ks, vs) ==
    {<<>>}
    \cup {<<Item(k, val)>> : k \in ks, val \in vs}
    \cup {<<Item(kv[1], v1), Item(kv[2], v2)>> :
              kv \in {p \in ks \X ks : p[1] # p[2]}, v1 \in vs, v2 \in vs}

\* the lists of at most n elements, all equal and drawn from vs
HomLists(vs, n) ==
    {PyList(<<>>)} \cup {PyList([i \in 1..k |-> e]) : e \in vs, k \in 1..n}

\* the lists of at most n elements drawn from vs
MixedLists(vs, n) == UNION {{PyList(l) : l \in [1..k -> vs]} : k \in 0..n}

\* scalars
V0 == {PyInt(1), PyNone}
\* one level of nesting
V1 == V0 \cup {PyDict(d) : d \in DictsOver({key_x}, V0)} \cup HomLists(V0, MaxLen)
\* two levels of nesting
V2 == V0 \cup {PyDict(d) : d \in DictsOver({key_x}, V1)} \cup HomLists(V1, MaxLen)

\* what an array of a "sibling arrays" record may hold
FlatElems == {PyInt(1), PyDict(<<>>), PyDict(<<Item(key_x, PyInt(1))>>)}

\* what the top-level list may hold besides one record
TopElems ==
    {PyNone, PyInt(1), PyDict(<<>>),
     PyDict(<<Item(key_a, PyInt(1))>>),
     PyDict(<<Item(key_a, PyList(<<PyInt(1)>>))>>),
     PyList(<<PyDict(<<Item(key_a, PyInt(1))>>)>>),
     PyList(<<PyDict(<<Item(key_a, PyInt(1))>>), PyDict(<<Item(key_b, PyInt(1))>>)>>)}

Seps == {<<".">>, <<"_">>}

\* the exclusion lists tried with separator s
Excludes(s) ==
    {{}, {key_a}, {key_a \o s \o key_x}, {key_a \o s \o index}, {row_index},
     {key_a, key_b}}

\* the calls tidify(data, exclude=..., sep=...) of the model
Inputs ==
    {[data |-> PyList(<<PyDict(d)>>), exclude |-> {}, sep |-> <<".">>] :
         d \in DictsOver({key_a, key_b}, V2)}
    \cup {[data |-> PyList(<<PyDict(d)>>), exclude |-> se[2], sep |-> se[1]] :
         d \in DictsOver({key_a, key_b}, V1),
         se \in UNION {{<<s, e>> : e \in Excludes(s)} : s \in Seps}}
    \cup {[data |-> PyList(<<PyDict(d)>>), exclude |-> {}, sep |-> <<".">>] :
         d \in DictsOver({key_a, key_b}, {PyInt(1)} \cup MixedLists(FlatElems, MaxLen))}
    \cup {[data |-> l, exclude |-> e, sep |-> <<".">>] :
         l \in MixedLists(TopElems, MaxRows), e \in {{}, {row_index}}}

(***************************************************************************)
(* State.                                                                  *)
(***************************************************************************)
VARIABLES
    data,        \* tidify's argument: the top-level list
    exclude,     \* tidify's exclude, as the set of its elements
    sep,         \* tidify's sep
    stack,       \* the active calls of convert_to_tidy, innermost last
    tidy_data,   \* the list of flat records built so far
    cols,        \* the column list tidify returns
    pc,          \* "flatten", "done", "raised"; "cmp", "compared" for col_comparator alone
    cmp          \* three names and the results of comparing them

vars == <<data, exclude, sep, stack, tidy_data, cols, pc, cmp>>

NoCmp == [item1 |-> <<>>, item2 |-> <<>>, item3 |-> <<>>,
          r12 |-> 0, r21 |-> 0, r23 |-> 0, r13 |-> 0]

\* a call convert_to_tidy(remaining_data, fixed_data, ...) and how far its loop is
Frame(remaining_data, fixed_data) ==
    [remaining_data |-> remaining_data, fixed_data |-> fixed_data, idx |-> 0]

\* tidify up to its call convert_to_tidy(data, {}, tidy_data, exclude, sep)
Init ==
    /\ \E inp \in Inputs :
          /\ data = inp.data
          /\ exclude = inp.exclude
          /\ sep = inp.sep
    /\ stack = <<Frame(data, <<>>)>>
    /\ tidy_data = <<>>
    /\ cols = <<>>
    /\ pc = "flatten"
    /\ cmp = NoCmp

Top == stack[Len(stack)]

\* the callers of the innermost call
Callers == SubSeq(stack, 1, Len(stack) - 1)

\* Branch as it would be without the test len(remaining_data) > 0 (a mutant, for C5)
BranchNoLengthTest(remaining_data) ==
    IF IsList(remaining_data) THEN "list"
    ELSE IF remaining_data.t = "none" THEN "skip"
    ELSE IF remaining_data.t = "int" THEN "raise"
    ELSE "object"

\* Branch as it would be with the exclusion applied before the length is tested
\* (a mutant, for C10)
BranchAfterExclusion(remaining_data) ==
    IF IsList(remaining_data) THEN "list"
    ELSE IF remaining_data.t = "none" THEN "skip"
    ELSE IF remaining_data.t = "int" THEN "raise"
    ELSE IF Len(WithoutKeys(remaining_data.v, exclude)) > 0 THEN "object"
    ELSE "skip"

\* the branch convert_to_tidy takes on remaining_data: the if on lists, then the
\* elif "remaining_data is not None and len(remaining_data) > 0" (len of a number
\* raises TypeError), else nothing
Branch(remaining_data) ==
    IF IsList(remaining_data) THEN "list"
    ELSE IF remaining_data.t = "none" THEN "skip"
    ELSE IF remaining_data.t = "int" THEN "raise"
    ELSE IF Len(remaining_data.v) > 0 THEN "object"
    ELSE "skip"

\* the innermost call is in the branch of a non-empty dict
OnObject(f) == Branch(f.remaining_data) = "object"

\* remaining_data after the keys of the exclusion list are removed
Filtered(f) == WithoutKeys(f.remaining_data.v, exclude)

\* the callers, the innermost one advanced by one iteration, and the new call
Called(child) ==
    Append(Callers, [Top EXCEPT !.idx = @ + 1]) \o <<child>>

(***************************************************************************)
(* convert_to_tidy, one step of the innermost call at a time.              *)
(***************************************************************************)
\* the for loop over a list: the call on the next row, with a new fixed_data
IterateList ==
    /\ pc = "flatten" /\ Len(stack) > 0
    /\ Branch(Top.remaining_data) = "list"
    /\ Top.idx < Len(Top.remaining_data.v)
    /\ stack' = Called(Frame(Top.remaining_data.v[Top.idx + 1],
                             <<Item(row_index, PyInt(Top.idx))>>))
    /\ UNCHANGED <<data, exclude, sep, tidy_data, cols, pc, cmp>>

\* ExpandedRemaining as it would be with the other fields of the level left out
\* (a mutant, for C1)
ExpandedRemainingAlone(rd, array_key, elem, s) ==
    IF IsDict(elem)
    THEN Prefixed(array_key, s, elem.v)
    ELSE <<Item(array_key, elem)>>

\* the remaining data handed down for one element of the array array_key
ExpandedRemaining(rd, array_key, elem, s) ==
    IF IsDict(elem)
    THEN Update(Prefixed(array_key, s, elem.v), WithoutKeys(rd, {array_key}))
    ELSE Update(<<Item(array_key, elem)>>, WithoutKeys(rd, {array_key}))

\* the fixed data handed down for element sub_idx of the array array_key
ExpandedFixed(fixed_data, array_key, sub_idx, s) ==
    DictSet(fixed_data, array_key \o s \o index, PyInt(sub_idx))

\* the for loop over the first array of the object: the call on its next element
ExpandArray ==
    /\ pc = "flatten" /\ Len(stack) > 0
    /\ OnObject(Top)
    /\ LET rd == Filtered(Top)
           arrays == ArrayKeys(rd)
       IN  /\ Len(arrays) >= 1
           /\ LET array_key == arrays[1]
                  arr == Get(rd, array_key).v
              IN  /\ Top.idx < Len(arr)
                  /\ stack' = Called(Frame(
                         PyDict(ExpandedRemaining(rd, array_key, arr[Top.idx + 1], sep)),
                         ExpandedFixed(Top.fixed_data, array_key, Top.idx, sep)))
    /\ UNCHANGED <<data, exclude, sep, tidy_data, cols, pc, cmp>>

RECURSIVE FlattenedInto(_, _, _, _)
\* remaining after the items of the subobjects of rd named by keys are added to it
FlattenedInto(remaining, rd, keys, s) ==
    IF Len(keys) = 0 THEN remaining
    ELSE FlattenedInto(Update(remaining, Prefixed(keys[1], s, Get(rd, keys[1]).v)),
                       rd, Tail(keys), s)

\* the remaining data when every subobject of rd is flattened one level
FlattenedRemaining(rd, s) ==
    Update(FlattenedInto(<<>>, rd, SubobjectKeys(rd), s),
           WithoutKeys(rd, Range(SubobjectKeys(rd))))

\* no array, some subobjects: the one call on the flattened object
FlattenSubobjects ==
    /\ pc = "flatten" /\ Len(stack) > 0
    /\ OnObject(Top)
    /\ LET rd == Filtered(Top)
       IN  /\ Len(ArrayKeys(rd)) = 0
           /\ Len(SubobjectKeys(rd)) >= 1
           /\ Top.idx = 0
           /\ stack' = Called(Frame(PyDict(FlattenedRemaining(rd, sep)), Top.fixed_data))
    /\ UNCHANGED <<data, exclude, sep, tidy_data, cols, pc, cmp>>

\* the flat record of a call that has nothing nested left
FlatRecord(fixed_data, rd) == Update(fixed_data, rd)

\* nothing nested remains: tidy_data.append({**fixed_data, **remaining_data})
AppendRecord ==
    /\ pc = "flatten" /\ Len(stack) > 0
    /\ OnObject(Top)
    /\ LET rd == Filtered(Top)
       IN  /\ Len(ArrayKeys(rd)) = 0
           /\ Len(SubobjectKeys(rd)) = 0
           /\ tidy_data' = Append(tidy_data, FlatRecord(Top.fixed_data, rd))
    /\ stack' = Callers
    /\ UNCHANGED <<data, exclude, sep, cols, pc, cmp>>

\* remaining_data is None or has length 0: neither branch is taken, the call returns
SkipEmpty ==
    /\ pc = "flatten" /\ Len(stack) > 0
    /\ Branch(Top.remaining_data) = "skip"
    /\ stack' = Callers
    /\ UNCHANGED <<data, exclude, sep, tidy_data, cols, pc, cmp>>

\* the loop of the innermost call is over (or its one recursive call has returned)
LoopDone(f) ==
    \/ Branch(f.remaining_data) = "list" /\ f.idx = Len(f.remaining_data.v)
    \/ /\ OnObject(f)
       /\ LET rd == WithoutKeys(f.remaining_data.v, exclude)
          IN  IF Len(ArrayKeys(rd)) >= 1
              THEN f.idx = Len(Get(rd, ArrayKeys(rd)[1]).v)
              ELSE Len(SubobjectKeys(rd)) >= 1 /\ f.idx = 1

\* the innermost call returns to its caller
Return ==
    /\ pc = "flatten" /\ Len(stack) > 0
    /\ LoopDone(Top)
    /\ stack' = Callers
    /\ UNCHANGED <<data, exclude, sep, tidy_data, cols, pc, cmp>>

\* len(remaining_data) on a number raises TypeError, which ends tidify
RaiseTypeError ==
    /\ pc = "flatten" /\ Len(stack) > 0
    /\ Branch(Top.remaining_data) = "raise"
    /\ stack' = <<>>
    /\ pc' = "raised"
    /\ UNCHANGED <<data, exclude, sep, tidy_data, cols, cmp>>

\* tidify after convert_to_tidy: the columns of the frame, sorted
SortColumns ==
    /\ pc = "flatten" /\ Len(stack) = 0
    /\ cols' = SortCols(FirstSeen(tidy_data, <<>>), sep)
    /\ pc' = "done"
    /\ UNCHANGED <<data, exclude, sep, stack, tidy_data, cmp>>

Next ==
    \/ IterateList
    \/ ExpandArray
    \/ FlattenSubobjects
    \/ AppendRecord
    \/ SkipEmpty
    \/ Return
    \/ RaiseTypeError
    \/ SortColumns

Spec == Init /\ [][Next]_vars

(***************************************************************************)
(* col_comparator on its own: three column names, compared pairwise.       *)
(***************************************************************************)
\* the path segments the names are built from
Segments == {key_a, key_b, key_x, index}

\* column names for separator s: row_index, paths of one to three segments, and
\* names that end in the literal ".index"
Names(s) ==
    {row_index}
    \cup Segments
    \cup {p \o s \o q : p \in Segments, q \in Segments}
    \cup {key_a \o s \o key_x \o s \o index}
    \cup {key_a \o dot_index, key_x \o dot_index}

InitCmp ==
    /\ sep \in Seps
    /\ \E n1 \in Names(sep), n2 \in Names(sep), n3 \in Names(sep) :
          cmp = [NoCmp EXCEPT !.item1 = n1, !.item2 = n2, !.item3 = n3]
    /\ data = PyList(<<>>)
    /\ exclude = {}
    /\ stack = <<>>
    /\ tidy_data = <<>>
    /\ cols = <<>>
    /\ pc = "cmp"

\* the calls col_comparator(x, y, sep=sep) a sort of the three names can make
Compare ==
    /\ pc = "cmp"
    /\ cmp' = [cmp EXCEPT !.r12 = col_comparator(cmp.item1, cmp.item2, sep),
                          !.r21 = col_comparator(cmp.item2, cmp.item1, sep),
                          !.r23 = col_comparator(cmp.item2, cmp.item3, sep),
                          !.r13 = col_comparator(cmp.item1, cmp.item3, sep)]
    /\ pc' = "compared"
    /\ UNCHANGED <<data, exclude, sep, stack, tidy_data, cols>>

NextCmp == Compare

SpecCmp == InitCmp /\ [][NextCmp]_vars

(***************************************************************************)
(* Properties of the flattening (checked under Spec).                      *)
(***************************************************************************)
\* a scalar: a number or None
IsScalar(x) == x.t \in {"int", "none"}

\* a dict all of whose values are scalars
DictOfScalars(x) == IsDict(x) /\ \A i \in 1..Len(x.v) : IsScalar(x.v[i].v)

\* tidify has returned
Done == pc = "done"

\* the keys of a flat record
RowKeys(row) == {row[i].k : i \in 1..Len(row)}

\* the keys of all the emitted rows
AllKeys == UNION {RowKeys(tidy_data[i]) : i \in 1..Len(tidy_data)}

\* rec is a dict whose values are scalars or arrays of scalars and of dicts of
\* scalars, with at least one array
SiblingArrays(rec) ==
    /\ IsDict(rec)
    /\ \E i \in 1..Len(rec.v) : IsList(rec.v[i].v)
    /\ \A i \in 1..Len(rec.v) :
          \/ IsScalar(rec.v[i].v)
          \/ /\ IsList(rec.v[i].v)
             /\ \A j \in 1..Len(rec.v[i].v.v) :
                   IsScalar(rec.v[i].v.v[j]) \/ DictOfScalars(rec.v[i].v.v[j])

\* no array of rec holds an empty dict
NoEmptyElement(rec) ==
    \A i \in 1..Len(rec.v) :
       IsList(rec.v[i].v) =>
          \A j \in 1..Len(rec.v[i].v.v) : rec.v[i].v.v[j] # PyDict(<<>>)

RECURSIVE ArrayProduct(_)
\* l1 * ... * ln for the arrays among the items
ArrayProduct(items) ==
    IF Len(items) = 0 THEN 1
    ELSE (IF IsList(items[1].v) THEN Len(items[1].v.v) ELSE 1) * ArrayProduct(Tail(items))

RECURSIVE SumOfProducts(_)
\* the rows expected of a list of records
SumOfProducts(recs) ==
    IF Len(recs) = 0 THEN 0
    ELSE ArrayProduct(recs[1].v) + SumOfProducts(Tail(recs))

AtOrUnder(key, p) == key = p \/ StartsWithAt(key, p \o sep, 1)

\* C2 as stated: no emitted row has a key equal to or nested under a path of the
\* exclusion list, whichever path it is (generated columns included).
C2_ExcludedNeverEmitted ==
    Done => \A p \in exclude : \A key \in AllKeys : ~AtOrUnder(key, p)

\* the position of column c in cols
ColPos(c) == CHOOSE i \in 1..Len(cols) : cols[i] = c

\* C3 as stated: in the returned column list row_index is first when present, and
\* X<sep>index comes before X when both are present.
C3_IndexBeforeParent ==
    Done =>
       /\ (row_index \in Range(cols) => cols[1] = row_index)
       /\ \A c \in Range(cols) :
             (c \o sep \o index) \in Range(cols) => ColPos(c \o sep \o index) < ColPos(c)

\* key names an index column
IsIndexKey(key) == key = row_index \/ EndsWith(key, sep \o index)

\* the index columns of a row, with their values
IndexPart(row) == {row[i] : i \in {j \in 1..Len(row) : IsIndexKey(row[j].k)}}

\* C4 as stated: no two emitted rows agree on all their index columns.
C4_UniqueIndexCombination ==
    Done => \A i \in 1..Len(tidy_data) : \A j \in 1..Len(tidy_data) :
               i # j => IndexPart(tidy_data[i]) # IndexPart(tidy_data[j])

\* data is one record with one field
SingleField == Len(data.v) = 1 /\ IsDict(data.v[1]) /\ Len(data.v[1].v) = 1

Join(prefix, k) == IF prefix = <<>> THEN k ELSE prefix \o sep \o k

RECURSIVE LeafPaths(_, _)
\* the fully-qualified paths of the scalar leaves of x that are neither excluded nor
\* under an excluded path; the elements of an array share the array's path
LeafPaths(x, prefix) ==
    IF IsList(x) THEN UNION {LeafPaths(x.v[i], prefix) : i \in 1..Len(x.v)}
    ELSE IF IsDict(x)
    THEN UNION {IF Join(prefix, x.v[i].k) \in exclude THEN {}
                ELSE LeafPaths(x.v[i].v, Join(prefix, x.v[i].k)) : i \in 1..Len(x.v)}
    ELSE IF prefix = <<>> THEN {}
    ELSE {prefix}

RECURSIVE IndexPaths(_, _)
\* row_index for the top-level list and <array><sep>index for every array of x that
\* has elements and is neither excluded nor under an excluded path
IndexPaths(x, prefix) ==
    IF IsList(x)
    THEN (IF Len(x.v) = 0 THEN {}
          ELSE IF prefix = <<>> THEN {row_index}
          ELSE {prefix \o sep \o index})
         \cup UNION {IndexPaths(x.v[i], prefix) : i \in 1..Len(x.v)}
    ELSE IF IsDict(x)
    THEN UNION {IF Join(prefix, x.v[i].k) \in exclude THEN {}
                ELSE IndexPaths(x.v[i].v, Join(prefix, x.v[i].k)) : i \in 1..Len(x.v)}
    ELSE {}

RECURSIVE NothingEmpty(_, _)
\* x holds no empty list and no empty dict, and the top-level list (and the lists
\* directly inside it) hold only records and lists
NothingEmpty(x, top) ==
    IF IsList(x)
    THEN Len(x.v) > 0 /\ \A i \in 1..Len(x.v) : NothingEmpty(x.v[i], top)
    ELSE IF IsDict(x)
    THEN Len(x.v) > 0 /\ \A i \in 1..Len(x.v) : NothingEmpty(x.v[i].v, FALSE)
    ELSE ~top

ScalarRows ==
    \A i \in 1..Len(tidy_data) : \A j \in 1..Len(tidy_data[i]) :
       IsScalar(tidy_data[i][j].v)

\* C7: every record appended to tidy_data maps its keys to scalars, in every state of
\* the flattening, and no step changes a record that is already appended.
C7_ScalarRecordsNeverChanged ==
    /\ []ScalarRows
    /\ [][/\ Len(tidy_data') >= Len(tidy_data)
          /\ SubSeq(tidy_data', 1, Len(tidy_data)) = tidy_data]_vars

\* C7 witness: a record has been appended, from an input with a subobject and an
\* array, and the flattening still has calls to make
C7_Witness ==
    /\ pc = "flatten"
    /\ Len(stack) > 1
    /\ Len(tidy_data) >= 1
    /\ \E i \in 1..Len(data.v) :
          /\ IsDict(data.v[i])
          /\ \E j \in 1..Len(data.v[i].v) : IsDict(data.v[i].v[j].v)
          /\ \E j \in 1..Len(data.v[i].v) : IsList(data.v[i].v[j].v)

\* every key of the dict the call is on is in the exclusion list
AllExcluded(f) ==
    \A i \in 1..Len(f.remaining_data.v) : f.remaining_data.v[i].k \in exclude

\* C10: a call of convert_to_tidy on a non-empty dict all of whose keys are excluded
\* appends exactly one record, the fixed data alone; a call on an empty dict or on
\* None appends nothing.
C10_EmptinessTestedBeforeExclusion ==
    /\ [][(/\ pc = "flatten" /\ Len(stack) > 0
           /\ IsDict(Top.remaining_data) /\ Len(Top.remaining_data.v) > 0
           /\ AllExcluded(Top))
          => /\ tidy_data' = Append(tidy_data, Top.fixed_data)
             /\ stack' = Callers]_vars
    /\ [][(/\ pc = "flatten" /\ Len(stack) > 0
           /\ Top.remaining_data \in {PyDict(<<>>), PyNone})
          => /\ tidy_data' = tidy_data
             /\ stack' = Callers]_vars

\* C10 witness: a record with two fields, both excluded, has given the one row
\* {"row_index": 0}
C10_Witness ==
    /\ Done
    /\ exclude = {key_a, key_b}
    /\ Len(data.v) = 1 /\ IsDict(data.v[1]) /\ Len(data.v[1].v) = 2
    /\ tidy_data = << <<Item(row_index, PyInt(0))>> >>

(***************************************************************************)
(* Properties of col_comparator (checked under SpecCmp).                   *)
(***************************************************************************)
Compared == pc = "compared"

\* C8 as stated: col_comparator is a total order: of two distinct names exactly one
\* sorts before the other, and "sorts before" is transitive.
C8_TotalOrder ==
    Compared =>
       /\ cmp.item1 # cmp.item2 => ((cmp.r12 < 0) # (cmp.r21 < 0))
       /\ (cmp.r12 < 0 /\ cmp.r23 < 0) => cmp.r13 < 0

\* no earlier rule of col_comparator decides between the two distinct names x and y
FallbackCase(x, y) ==
    /\ x # y
    /\ x # row_index /\ y # row_index
    /\ x # y \o sep \o index /\ y # x \o sep \o index
    /\ Count(x, sep) = Count(y, sep)
    /\ ~(Siblings(x, y, sep) /\ (EndsWith(x, dot_index) \/ EndsWith(y, dot_index)))

\* C9 as stated: when no earlier rule decides, the lexicographically greater name
\* sorts first.
C9_ReverseLexicographic ==
    (Compared /\ FallbackCase(cmp.item1, cmp.item2))
    => (cmp.r12 < 0 <=> StrLT(cmp.item2, cmp.item1))

\* C9 amended: when no earlier rule decides, the lexicographically smaller name sorts
\* first (ascending order).
C9_AscendingLexicographic ==
    (Compared /\ FallbackCase(cmp.item1, cmp.item2))
    => (cmp.r12 < 0 <=> StrLT(cmp.item1, cmp.item2))

\* C9 witness: a<sep>x and b<sep>index are ordered by the last rule, a<sep>x first
C9_Witness ==
    /\ Compared
    /\ cmp.item1 = key_a \o sep \o key_x
    /\ cmp.item2 = key_b \o sep \o index
    /\ FallbackCase(cmp.item1, cmp.item2)
    /\ cmp.r12 < 0 /\ cmp.r21 > 0

====
